---- MODULE Spec2Model ----
(***************************************************************************)
(* custom_mwclient: the retry-with-relogin wrappers (save_/move_/delete_/  *)
(* api_ of WikiClient, save/move/delete/api of FandomClient) and the       *)
(* recursive continuation aggregator api_continue.                         *)
(*                                                                         *)
(* One client makes one call.  The remote side (self.client / Site.api,    *)
(* page.save/move/delete, relog) is the environment: every raw call picks  *)
(* its outcome from RawOutcomes, every relog from RelogOutcomes, every     *)
(* page of a continued query from Payloads x Blocks.                       *)
(*                                                                         *)
(* Python's call stack is the variable "stack" (retry wrappers) and        *)
(* "cstack" (api_continue's recursion).  With a FandomClient, page.save,   *)
(* page.move and page.delete reach the server through site.api, which is   *)
(* the overridden, retrying FandomClient.api: a page operation then pushes *)
(* an "api" frame on top of its own frame.                                 *)
(***************************************************************************)
EXTENDS Integers, Sequences, FiniteSets, TLC

\* ------------------------------------------------------------------ bounds
\* max_retries is drawn from 0..MaxRetriesBound
MaxRetriesBound == 4
\* retry_interval is drawn from 1..MaxInterval and the default
MaxInterval == 2
\* a continued query has at most MaxPages pages
MaxPages == 3

\* ------------------------------------------------------- program constants
DefaultMaxRetries == 3
DefaultRetryInterval == 10

\* ------------------------------------------------------------- error kinds
\* write_errors = (AssertUserFailedError, ReadTimeout, APIError); APIError is
\* split by its code because move_/delete_ look at e.code.
TransientKinds ==
    {"AssertUserFailedError", "ReadTimeout", "APIError_badtoken", "APIError_other"}

\* Everything else a raw call can raise: the page is protected, an Exception
\* outside write_errors, a BaseException (KeyboardInterrupt).
FatalKinds == {"ProtectedPageError", "OtherError", "KeyboardInterrupt"}

RawOutcomes == {"ok"} \cup TransientKinds \cup FatalKinds

\* class RetriedLoginAndStillFailed(AssertUserFailedError)
RLASF == "RetriedLoginAndStillFailed"

\* relog: FandomClient.relog raises NotImplementedError; an overriding relog
\* returns, or raises mwclient's LoginError on bad credentials.
RelogOutcomes == {"ok", "NotImplementedError", "LoginError"}

\* isinstance(e, self.write_errors): the three listed classes and their
\* subclasses, RetriedLoginAndStillFailed among them.
\* faulty variant: except BaseException, a cancellation counts as a failure
IsWriteErrorOrCancel(e) ==
    e \in TransientKinds \cup {RLASF, "KeyboardInterrupt", "ScriptExecutionKilledByPill"}

IsWriteError(e) == e \in TransientKinds \cup {RLASF}

Ops == {"save", "move", "delete", "api"}
PageOps == {"save", "move", "delete"}

\* failure_type passed to _retry_login_action / the literal in api_
\* faulty variant: the name of the method instead of the action
FailureTypeMethodName(fn) == fn

FailureType(fn) ==
    CASE fn = "save" -> "edit"
      [] fn = "move" -> "move"
      [] fn = "delete" -> "delete"
      [] fn = "api" -> "api"

\* ---------------------------------------------------------------- backoff
RECURSIVE Pow2(_)
Pow2(n) == IF n = 0 THEN 1 ELSE 2 * Pow2(n - 1)

\* faulty variant: plain exponential, sleeps already before the first retry
BackoffNoMinusOne(retry, retry_interval) == Pow2(retry) * retry_interval

\* (2 ** retry - 1) * self.retry_interval
Backoff(retry, retry_interval) == (Pow2(retry) - 1) * retry_interval

VARIABLES
    \* configuration of the client and the call
    max_retries,    \* self.max_retries
    retry_interval, \* self.retry_interval
    fandom,         \* TRUE: FandomClient (page ops go through FandomClient.api)
    op,             \* the method called: "none" before the call
    hasLog,         \* save_'s log argument is given
    \* control
    phase,          \* "idle", "running", "done"
    stack,          \* retry frames, the innermost last
    \* what happened
    calls,          \* raw calls made (attempts that reached the server)
    firstRaw,       \* outcome of the first raw call (Seen: transient kinds as one)
    lastRaw,        \* outcome of the latest raw call (Seen)
    rawFails,       \* raw calls that failed with a transient kind
    relogs,         \* relog() calls
    sleeps,         \* time.sleep calls: <<[fn, retry, delay]>>
    logged,         \* calls of the log sink
    loops,          \* wrapper activations that ended: <<LoopRecord>>
    exhausted,      \* some retry loop has raised RetriedLoginAndStillFailed
    afterExhaust,   \* relogs and raw calls made after that
    outcome,        \* "none", "ok" (normal return) or the kind raised to the caller
    action,         \* .action of the RetriedLoginAndStillFailed raised to the caller
    ret,            \* api_'s return value: the index of the raw call it came from
    session,        \* the login session of the client: relogs that returned
    handles,        \* the page handle of every attempt of a page operation
    callerPage,     \* the Page object the caller passed in
    applied,        \* times the server committed the requested change
    stop,           \* the first event that must end the call (NoStop: none yet)
    events,         \* what the call did, in order: "attempt", "relog", "sleep", ...
    args,           \* the arguments of the call, by parameter name
    loopKw,         \* **kwargs of the wrapper's retry loop (_retry_login_action)
    requests,       \* the request of every attempt of the wrapper called
    \* api_continue
    callerKwargs,   \* the caller's own parameter mapping (passed as **kwargs)
    hint,           \* the caller's continue_name ("" when not given)
    cur,            \* arguments of the activation about to send: [i, continue_name, kwargs]
    cstack,         \* activations waiting for their recursive call, the innermost last
    creqs,          \* the kwargs of every request sent, in call order
    cresps,         \* the responses received, in call order
    cerrAt,         \* index of the request that raised (0: none)
    clog,           \* what the except branch logged: <<[i, action, kwargs]>>
    cout,           \* "none", "return", or the kind of exception raised to the caller
    cret,           \* the value returned to the caller
    \* several calls on one client at once
    threads         \* per calling thread: [at, f, sess, out]

retryVars == <<max_retries, retry_interval, fandom, op, hasLog, phase, stack,
               calls, firstRaw, lastRaw, rawFails, relogs, sleeps, logged,
               loops, exhausted, afterExhaust, outcome, action, ret, session,
               handles, callerPage, applied, stop, events, args, loopKw,
               requests>>

contVars == <<callerKwargs, hint, cur, cstack, creqs, cresps, cerrAt, clog, cout,
              cret>>

concVars == <<threads>>

vars == <<retryVars, contVars, concVars>>

\* One remote call as the server sees it: the outcome the client gets, and
\* whether the server committed the change.  A request that succeeds is
\* committed; a request whose response is lost or late is committed too, and
\* the client sees ReadTimeout.
ServerOutcomes ==
    {[kind |-> x, committed |-> (x = "ok")] : x \in RawOutcomes}
        \cup {[kind |-> "ReadTimeout", committed |-> TRUE]}

\* ------------------------------------------------------------ page handles
\* the caller's Page object, made before the call under session 0
CallerPage == [name |-> "Page", session |-> 0, uses |-> 0]

\* The handle an attempt works on.  First attempt: the caller's page.  Retried
\* attempt: old_page = kwargs.pop('page');
\* page = self.client.pages[old_page.name], a new object made under the
\* session in force (sess) when _retry_save/_retry_move/_retry_delete runs.
\* faulty variant: the retried attempt works on the caller's handle
AttemptHandleReused(f, page, sess) ==
    [obj |-> "caller", name |-> page.name, session |-> page.session]

AttemptHandle(f, page, sess) ==
    IF f.pc = "first"
    THEN [obj |-> "caller", name |-> page.name, session |-> page.session]
    ELSE [obj |-> "byName", name |-> page.name, session |-> sess]

\* the record of one attempt of a page operation in handles
HandleUse(f, page, sess) ==
    [fn |-> f.fn, retried |-> (f.pc # "first"), now |-> sess,
     handle |-> AttemptHandle(f, page, sess)]

\* the caller's Page object after an attempt through the handle h
PageAfter(page, h) ==
    IF h.obj = "caller" THEN [page EXCEPT !.uses = @ + 1] ELSE page

\* ------------------------------------------------------- request arguments
\* a mapping without the keys in ks (what dict.pop leaves)
Without(kw, ks) == [k \in DOMAIN kw \ ks |-> kw[k]]

NoKwargs == [k \in {} |-> "none"]

\* the arguments of a call by parameter name; more stands for the caller's
\* extra keyword arguments (**kwargs of save_ and api_)
CallArgs(o, log, more) ==
    CASE o = "save" ->
            [k \in {"page", "text", "summary", "minor", "bot", "section", "log"}
                    \cup (IF more THEN {"tags"} ELSE {}) |->
                CASE k = "page" -> CallerPage.name
                  [] k = "text" -> "new text"
                  [] k = "summary" -> "a summary"
                  [] k = "minor" -> "False"
                  [] k = "bot" -> "True"
                  [] k = "section" -> "None"
                  [] k = "log" -> IF log THEN "log" ELSE "None"
                  [] k = "tags" -> "a tag"]
      [] o = "move" ->
            [k \in {"page", "new_title", "reason", "move_talk", "no_redirect",
                    "move_subpages", "ignore_warnings"} |->
                CASE k = "page" -> CallerPage.name
                  [] k = "new_title" -> "New title"
                  [] k = "reason" -> "a reason"
                  [] k = "move_talk" -> "True"
                  [] OTHER -> "False"]
      [] o = "delete" ->
            [k \in {"page", "reason", "watch", "unwatch", "oldimage"} |->
                CASE k = "page" -> CallerPage.name
                  [] k = "reason" -> "a reason"
                  [] OTHER -> "False"]
      [] o = "api" ->
            [k \in {"action", "http_method"} \cup (IF more THEN {"titles"} ELSE {}) |->
                CASE k = "action" -> "edit"
                  [] k = "http_method" -> "POST"
                  [] k = "titles" -> CallerPage.name]

\* the parameters the wrapper hands on by position
Positional(o) ==
    CASE o = "save" -> <<"text">>
      [] o = "move" -> <<"new_title">>
      [] o = "delete" -> <<>>
      [] o = "api" -> <<"action">>

\* the keys _retry_save / _retry_move / _retry_delete pop from their kwargs
Popped(o) ==
    CASE o = "save" -> {"page", "text", "log"}
      [] o = "move" -> {"page", "new_title"}
      [] o = "delete" -> {"page"}
      [] o = "api" -> {}

\* one request: the page (by name) or the site it goes to, the positional
\* arguments, the keyword arguments; err: kwargs.pop raised KeyError instead
Request(target, pos, options) ==
    [err |-> FALSE, target |-> target, pos |-> pos, options |-> options]

RequestKeyError == [err |-> TRUE, target |-> "none", pos |-> <<>>, options |-> NoKwargs]

\* the first attempt: page.save(text, summary=summary, ..., **kwargs),
\* page.move(new_title, reason=reason, ...), page.delete(reason=reason, ...),
\* self.client.api(action, http_method=http_method, *args, **kwargs)
FirstRequest(o, a) ==
    IF o = "api"
    THEN Request("site", <<a.action>>, Without(a, {"action"}))
    ELSE Request(a.page, [i \in DOMAIN Positional(o) |-> a[Positional(o)[i]]],
                 Without(a, {"page", "log"} \cup {Positional(o)[i] : i \in DOMAIN Positional(o)}))

\* the keyword arguments _retry_login_action is called with: page=page,
\* text=text, ..., log=log, **kwargs (api_: the locals of api_ themselves)
LoopKwargs(o, a) == a

\* a retried attempt, from the loop's kwargs: _retry_save pops page, text and
\* log and calls page.save(text, **kwargs) on self.client.pages[old_page.name];
\* _retry_move pops page and new_title, _retry_delete pops page; api_ repeats
\* the expression of its first attempt
RetryRequest(o, kw) ==
    IF o = "api" THEN FirstRequest(o, kw)
    ELSE IF ~(Popped(o) \subseteq DOMAIN kw) THEN RequestKeyError
    ELSE Request(kw.page, [i \in DOMAIN Positional(o) |-> kw[Positional(o)[i]]],
                 Without(kw, Popped(o)))

AttemptRequest(f, a, kw) ==
    IF f.pc = "first" THEN FirstRequest(f.fn, a) ELSE RetryRequest(f.fn, kw)

\* the loop's kwargs after f(**kwargs): the callee got its own copy, what it
\* popped is still there
\* faulty variant: the callee pops from the loop's own dict
KwargsAfterCallShared(f, kw) ==
    IF f.pc = "first" THEN kw ELSE Without(kw, Popped(f.fn))

KwargsAfterCall(f, kw) == kw

\* what an attempt can come to: kwargs.pop raised before any request was
\* sent, or the server answers
AttemptOutcomes(req) ==
    IF req.err THEN {[kind |-> "KeyError", committed |-> FALSE]} ELSE ServerOutcomes

\* --------------------------------------------------------------- stop events
\* events after which a wrapper has nothing left to do: a cancellation, a
\* relog that raised, a protected page reported to the log sink
NoStop == [why |-> "none", kind |-> "none", calls |-> 0, relogs |-> 0, sleeps |-> 0]

StopAt(why, kind, c, r, sl) ==
    [why |-> why, kind |-> kind, calls |-> c, relogs |-> r, sleeps |-> sl]

\* a BaseException that is no Exception: KeyboardInterrupt, or one of
\* errors.py's ErrorDuringScriptExecution, ScriptExecutionInvalid,
\* ScriptExecutionKilledByPill
CancelKinds == {"KeyboardInterrupt", "ScriptExecutionKilledByPill"}

\* ------------------------------------------------------------------ frames
\* One activation of a wrapper: fn, the position in its code, the loop
\* variable retry, and (history) the failures it caught, the relogs it made
\* and the outcome of its latest attempt.
Frame(fn) ==
    [fn |-> fn, pc |-> "first", retry |-> 0, fails |-> 0, relogs |-> 0,
     last |-> "none"]

\* how the history variables remember an outcome: the transient kinds as one
Seen(kind) == IF kind \in TransientKinds THEN "transient" ELSE kind

Top == stack[Len(stack)]

SetTop(stk, f) == [stk EXCEPT ![Len(stk)] = f]

Pop(stk) == SubSeq(stk, 1, Len(stk) - 1)

\* an outcome: "ok" or the kind of the exception, with .action of a
\* RetriedLoginAndStillFailed
Out(kind, act) == [kind |-> kind, act |-> act]

\* what a frame does with the outcome of one attempt:
\*   st = "continue": the frame goes on (f is the frame after)
\*   st = "return"  : the wrapper returns normally
\*   st = "raise"   : the wrapper raises out (own: raised by its own loop)
Continue(f) ==
    [st |-> "continue", f |-> f, out |-> Out("none", "none"), own |-> FALSE, log |-> 0]

Return(f, log) ==
    [st |-> "return", f |-> f, out |-> Out("ok", "none"), own |-> FALSE, log |-> log]

Raise(f, x) ==
    [st |-> "raise", f |-> f, out |-> x, own |-> FALSE, log |-> 0]

GiveUp(f) ==
    [st |-> "raise", f |-> f, out |-> Out(RLASF, FailureType(f.fn)), own |-> TRUE,
     log |-> 0]

\* an except clause caught the failure: the frame counts it
Caught(f) == [f EXCEPT !.fails = @ + 1]

\* for retry in range(self.max_retries): the next pass of the loop, or, the
\* range used up, raise RetriedLoginAndStillFailed(failure_type)
\* faulty variant: one retry fewer, the first attempt counted in the budget
LoopNextCountingFirst(f, n) ==
    IF n + 1 < max_retries
    THEN Continue([f EXCEPT !.pc = "relog", !.retry = n])
    ELSE GiveUp(f)

\* faulty variant: the loop body starts at the sleep, relog is left out
LoopNextWithoutRelog(f, n) ==
    IF n < max_retries
    THEN Continue([f EXCEPT !.pc = "sleep", !.retry = n])
    ELSE GiveUp(f)

LoopNext(f, n) ==
    IF n < max_retries
    THEN Continue([f EXCEPT !.pc = "relog", !.retry = n])
    ELSE GiveUp(f)

\* save_ / FandomClient.save, the first attempt
\* faulty variant: a protected page is treated like a write error
SaveFirstRetryProtected(f, x) ==
    IF x.kind = "ok" THEN Return(f, 0)
    ELSE IF IsWriteError(x.kind) \/ x.kind = "ProtectedPageError"
    THEN LoopNext(Caught(f), 0)
    ELSE Raise(f, x)

SaveFirst(f, x) ==
    IF x.kind = "ok" THEN Return(f, 0)
    ELSE IF x.kind = "ProtectedPageError"
    THEN IF hasLog THEN Return(f, 1) ELSE Raise(f, x)
    ELSE IF IsWriteError(x.kind) THEN LoopNext(Caught(f), 0)
    ELSE Raise(f, x)

\* move_ / delete_ and FandomClient.move / delete, the first attempt:
\* except APIError as e: badtoken -> retry, else raise e
MoveDeleteFirst(f, x) ==
    IF x.kind = "ok" THEN Return(f, 0)
    ELSE IF x.kind = "APIError_badtoken" THEN LoopNext(Caught(f), 0)
    ELSE Raise(f, x)

\* api_ / FandomClient.api, the first attempt
\* faulty variant: the result of the first attempt is dropped and the loop runs
ApiFirstAlwaysRetries(f, x) ==
    IF x.kind = "ok" \/ IsWriteError(x.kind) THEN LoopNext(f, 0)
    ELSE Raise(f, x)

ApiFirst(f, x) ==
    IF x.kind = "ok" THEN Return(f, 0)
    ELSE IF IsWriteError(x.kind) THEN LoopNext(Caught(f), 0)
    ELSE Raise(f, x)

\* one pass of the loop body after relog and sleep, in _retry_login_action with
\* f = _retry_save: ProtectedPageError is handled inside _retry_save
\* faulty variant: _retry_save without its except ProtectedPageError clause
RetrySaveAttemptNoSink(f, x) ==
    IF x.kind = "ok" THEN Return(f, 0)
    ELSE IF IsWriteError(x.kind) THEN LoopNext(Caught(f), f.retry + 1)
    ELSE Raise(f, x)

RetrySaveAttempt(f, x) ==
    IF x.kind = "ok" THEN Return(f, 0)
    ELSE IF x.kind = "ProtectedPageError"
    THEN IF hasLog THEN Return(f, 1) ELSE Raise(f, x)
    ELSE IF IsWriteError(x.kind) THEN LoopNext(Caught(f), f.retry + 1)
    ELSE Raise(f, x)

\* faulty variant: the break / return after a successful retry is missing
RetryAttemptNoBreak(f, x) ==
    IF x.kind = "ok" \/ IsWriteError(x.kind) THEN LoopNext(f, f.retry + 1)
    ELSE Raise(f, x)

\* faulty variant: except Exception / BaseException, every failure is retried
RetryAttemptCatchesAll(f, x) ==
    IF x.kind = "ok" THEN Return(f, 0)
    ELSE LoopNext(Caught(f), f.retry + 1)

\* the same with f = _retry_move / _retry_delete, and the loop of api_
RetryAttempt(f, x) ==
    IF x.kind = "ok" THEN Return(f, 0)
    ELSE IF IsWriteError(x.kind) THEN LoopNext(Caught(f), f.retry + 1)
    ELSE Raise(f, x)

\* the frame's code at its position
FrameStep(f, x) ==
    IF f.pc = "first"
    THEN CASE f.fn = "save" -> SaveFirst(f, x)
           [] f.fn \in {"move", "delete"} -> MoveDeleteFirst(f, x)
           [] f.fn = "api" -> ApiFirst(f, x)
    ELSE CASE f.fn = "save" -> RetrySaveAttempt(f, x)
           [] OTHER -> RetryAttempt(f, x)

LoopRecord(f, depth, r) ==
    [fn |-> f.fn, depth |-> depth, fails |-> f.fails, relogs |-> f.relogs,
     last |-> f.last, out |-> r.out.kind, act |-> r.out.act, own |-> r.own]

\* An outcome x arrives at the innermost frame of stk; a frame that ends hands
\* its own outcome to the frame below (the exception or the return value
\* travels up Python's stack).  The result: the stack after, the outcome that
\* reached the caller (kind "none" while the call goes on), log sink calls,
\* the frames that ended, and whether a loop gave up on the way.
RECURSIVE Deliver(_, _, _)
Deliver(stk, x, acc) ==
    LET f == [stk[Len(stk)] EXCEPT !.last = Seen(x.kind)]
        r == FrameStep(f, x)
        acc2 == [acc EXCEPT !.logged = @ + r.log, !.gaveUp = @ \/ r.own]
    IN  IF r.st = "continue"
        THEN [acc2 EXCEPT !.stack = SetTop(stk, r.f)]
        ELSE LET acc3 == [acc2 EXCEPT
                            !.loops = Append(@, LoopRecord(r.f, Len(stk), r))]
             IN  IF Len(stk) = 1
                 THEN [acc3 EXCEPT !.stack = <<>>, !.out = r.out]
                 ELSE Deliver(Pop(stk), r.out, acc3)

Delivered(stk, x) ==
    Deliver(stk, x, [stack |-> stk, out |-> Out("none", "none"), logged |-> 0,
                     loops |-> <<>>, gaveUp |-> FALSE])

\* ------------------------------------------------- concurrent callers
\* the threads of a caller that drives several calls on one client at once
Threads == {"t1", "t2"}

\* a thread: where it is (at: "idle", "ready" to take its frame's next step,
\* "inRelog" inside self.relog(), "inFlight" waiting for the response of an
\* attempt, "done"), the activation f of the wrapper it runs, the session
\* its request in flight was sent under, and its outcome
IdleThread == [at |-> "idle", f |-> Frame("api"), sess |-> 0, out |-> "none"]

InRelog == {t \in Threads : threads[t].at = "inRelog"}

InFlight == {t \in Threads : threads[t].at = "inFlight"}

\* ------------------------------------------------------------ api_continue
\* Python values that api_continue handles: None, a response payload
\* api_result[action] (an OrderedDict, or a value of another type), and the
\* list it builds.  id is the index of the response a payload came with,
\* truthy is bool(value).
PyNone == [t |-> "None", id |-> 0, items |-> <<>>, truthy |-> FALSE]

PyList(items) == [t |-> "list", id |-> 0, items |-> items, truthy |-> items # <<>>]

\* the payloads a server can send with response k: a filled OrderedDict, an
\* empty one, a JSON array, a value of any other type (a plain dict, a string)
PayloadKinds == {"od", "odEmpty", "list", "other"}

Payload(kind, k) ==
    CASE kind = "od" -> [t |-> "OrderedDict", id |-> k, items |-> <<>>, truthy |-> TRUE]
      [] kind = "odEmpty" ->
            [t |-> "OrderedDict", id |-> k, items |-> <<>>, truthy |-> FALSE]
      [] kind = "list" ->
            [t |-> "list", id |-> k,
             items |-> <<[t |-> "item", id |-> k, items |-> <<>>, truthy |-> TRUE]>>,
             truthy |-> TRUE]
      [] kind = "other" -> [t |-> "other", id |-> k, items |-> <<>>, truthy |-> TRUE]

\* request parameters: a mapping over ParamKeys, "absent" for a key not in it
ParamKeys == {"list", "cmcontinue", "xyzcontinue", "continue"}

BaseKwargs ==
    { [k \in ParamKeys |-> IF k = "list" THEN "categorymembers" ELSE "absent"],
      [k \in ParamKeys |-> IF k = "list" THEN "categorymembers"
                           ELSE IF k = "cmcontinue" THEN "old" ELSE "absent"] }

Hints == {"", "cmcontinue", "xyzcontinue"}

\* the continuation token that comes with response k
Tokens == <<"A", "B", "C", "D", "E", "F">>

\* api_result['continue'] of response k: absent, or an ordered mapping
NoBlock == [present |-> FALSE, pairs |-> <<>>]

Block(pairs) == [present |-> TRUE, pairs |-> pairs]

Blocks(k) ==
    { NoBlock,
      Block(<<>>),
      Block(<<[key |-> "cmcontinue", tok |-> Tokens[k]]>>),
      Block(<<[key |-> "cmcontinue", tok |-> ""]>>),
      Block(<<[key |-> "xyzcontinue", tok |-> Tokens[k]]>>),
      Block(<<[key |-> "cmcontinue", tok |-> Tokens[k]],
              [key |-> "continue", tok |-> "-||"]>>) }

HasKey(block, key) == \E j \in DOMAIN block.pairs : block.pairs[j].key = key

\* api_result['continue'][key], for a key the block has
TokenAt(block, key) ==
    LET j == CHOOSE j \in DOMAIN block.pairs : block.pairs[j].key = key
    IN  block.pairs[j].tok

\* self.client.api(action, **kwargs): raises, or returns a response
CallErrors == {"Exception", "KeyboardInterrupt"}

Responses(k) ==
    { [err |-> e, payload |-> PyNone, block |-> NoBlock] : e \in CallErrors }
    \cup { [err |-> "none", payload |-> Payload(pk, k), block |-> b] :
             pk \in PayloadKinds, b \in Blocks(k) }

\* the result of an activation, or of a part of it
Returns(v) == [st |-> "return", val |-> v, kind |-> "none"]

Raises(kind) == [st |-> "raise", val |-> PyNone, kind |-> kind]

Recurse(name, tok) == [st |-> "recurse", val |-> PyNone, kind |-> "none",
                       name |-> name, tok |-> tok]

\* the continue_name of this activation and of the ones below it: the
\* caller's, or the first key of the block
\* faulty variant: every activation takes the first key of its own block
ChosenNameRediscover(continue_name, block) == block.pairs[1].key

ChosenName(continue_name, block) ==
    IF continue_name = "" THEN block.pairs[1].key ELSE continue_name

\* kwargs.__setitem__(continue_name, token)
\* faulty variant: setdefault, an earlier token under the key stays
MergeTokenKeepOld(kwargs, name, tok) ==
    IF kwargs[name] = "absent" THEN [kwargs EXCEPT ![name] = tok] ELSE kwargs

MergeToken(kwargs, name, tok) == [kwargs EXCEPT ![name] = tok]

\* the else branch, "reached top of the stack": no continuation block
\* faulty variant: the single-page case is not wrapped in a list
BottomNeverWraps(i, payload) == Returns(payload)

Bottom(i, payload) ==
    IF i = 1 THEN Returns(PyList(<<payload>>)) ELSE Returns(payload)

\* faulty variant: a response without continuation block is asked for once more
AfterResponseAsksAgain(i, continue_name, resp) ==
    IF ~resp.block.present
    THEN IF continue_name # "" THEN Recurse(continue_name, "again")
         ELSE Bottom(i, resp.payload)
    ELSE IF continue_name = "" /\ resp.block.pairs = <<>> THEN Raises("IndexError")
    ELSE LET name == ChosenName(continue_name, resp.block) IN
         IF ~HasKey(resp.block, name) THEN Raises("KeyError")
         ELSE IF TokenAt(resp.block, name) = "" THEN Returns(PyNone)
         ELSE Recurse(name, TokenAt(resp.block, name))

\* after self.client.api returned: flag, continue_name, the token
AfterResponse(i, continue_name, resp) ==
    IF ~resp.block.present THEN Bottom(i, resp.payload)
    ELSE IF continue_name = "" /\ resp.block.pairs = <<>> THEN Raises("IndexError")
    ELSE LET name == ChosenName(continue_name, resp.block) IN
         IF ~HasKey(resp.block, name) THEN Raises("KeyError")
         ELSE IF TokenAt(resp.block, name) = "" THEN Returns(PyNone)
         ELSE Recurse(name, TokenAt(resp.block, name))

\* after the recursive call returned next_api_result, in the activation whose
\* own response carried payload
AfterRecursion(payload, next_api_result) ==
    IF ~next_api_result.truthy THEN Returns(PyNone)
    ELSE LET result == IF next_api_result.t = "OrderedDict"
                       THEN PyList(<<next_api_result>>)
                       ELSE next_api_result
         IN  IF result.t = "list"
             THEN Returns([result EXCEPT !.items = Append(@, payload)])
             ELSE Raises("AttributeError")

\* the innermost activation ended with r: the waiting activations go on, the
\* innermost first; an exception passes through all of them
RECURSIVE Unwind(_, _)
Unwind(stk, r) ==
    IF stk = <<>> \/ r.st = "raise" THEN r
    ELSE Unwind(Pop(stk), AfterRecursion(stk[Len(stk)].payload, r.val))

\* does the response make the activation call itself again
Recurses(i, continue_name, resp) ==
    resp.err = "none" /\ AfterResponse(i, continue_name, resp).st = "recurse"

NoArgs == [i |-> 0, continue_name |-> "", kwargs |-> [k \in ParamKeys |-> "absent"]]

\* ------------------------------------------------------------------- Init
Intervals == (1..MaxInterval) \cup {DefaultRetryInterval}

\* a client after construction, before the call
Constructed ==
    /\ op = "none"
    /\ hasLog = FALSE
    /\ phase = "idle"
    /\ stack = <<>>
    /\ calls = 0
    /\ firstRaw = "none"
    /\ lastRaw = "none"
    /\ rawFails = 0
    /\ relogs = 0
    /\ sleeps = <<>>
    /\ logged = 0
    /\ loops = <<>>
    /\ exhausted = FALSE
    /\ afterExhaust = 0
    /\ outcome = "none"
    /\ action = "none"
    /\ ret = 0
    /\ session = 0
    /\ handles = <<>>
    /\ callerPage = CallerPage
    /\ applied = 0
    /\ stop = NoStop
    /\ events = <<>>
    /\ args = NoKwargs
    /\ loopKw = NoKwargs
    /\ requests = <<>>
    /\ threads = [t \in Threads |-> IdleThread]
    /\ callerKwargs = NoArgs.kwargs
    /\ hint = ""
    /\ cur = NoArgs
    /\ cstack = <<>>
    /\ creqs = <<>>
    /\ cresps = <<>>
    /\ cerrAt = 0
    /\ clog = <<>>
    /\ cout = "none"
    /\ cret = PyNone

\* any client: max_retries and retry_interval are constructor arguments
Init ==
    /\ max_retries \in 0..MaxRetriesBound
    /\ retry_interval \in Intervals
    /\ fandom \in BOOLEAN
    /\ Constructed

\* api_continue reads none of them: a client with the defaults
ContInit ==
    /\ max_retries = DefaultMaxRetries
    /\ retry_interval = DefaultRetryInterval
    /\ fandom = FALSE
    /\ Constructed

\* the client several threads share: one with the defaults
ConcInit ==
    /\ max_retries = DefaultMaxRetries
    /\ retry_interval = DefaultRetryInterval
    /\ fandom = FALSE
    /\ Constructed

\* ---------------------------------------------------------------- actions
\* the caller invokes one of the wrappers
Call ==
    /\ phase = "idle"
    /\ \E o \in Ops, l \in BOOLEAN, more \in BOOLEAN :
        /\ (l => o = "save")
        /\ (more => o \in {"save", "api"})
        /\ op' = o
        /\ hasLog' = l
        /\ args' = CallArgs(o, l, more)
        /\ loopKw' = LoopKwargs(o, CallArgs(o, l, more))
        /\ stack' = <<Frame(o)>>
    /\ phase' = "running"
    /\ UNCHANGED <<max_retries, retry_interval, fandom, calls, firstRaw, lastRaw,
                   rawFails, relogs, sleeps, logged, loops, exhausted,
                   afterExhaust, outcome, action, ret, session, handles,
                   callerPage, applied, stop, events, requests, contVars,
                   concVars>>

\* page.save / page.move / page.delete of a FandomClient page call site.api,
\* i.e. FandomClient.api
PageCallsApi ==
    /\ phase = "running"
    /\ fandom
    /\ Top.fn \in PageOps
    /\ Top.pc \in {"first", "attempt"}
    /\ ~AttemptRequest(Top, args, loopKw).err
    /\ requests' = Append(requests, AttemptRequest(Top, args, loopKw))
    /\ loopKw' = KwargsAfterCall(Top, loopKw)
    /\ stack' = Append(stack, Frame("api"))
    /\ handles' = Append(handles, HandleUse(Top, callerPage, session))
    /\ callerPage' = PageAfter(callerPage, AttemptHandle(Top, callerPage, session))
    /\ UNCHANGED <<max_retries, retry_interval, fandom, op, hasLog, phase, calls,
                   firstRaw, lastRaw, rawFails, relogs, sleeps, logged, loops,
                   exhausted, afterExhaust, outcome, action, ret, session,
                   applied, stop, events, args, contVars,
                   concVars>>

\* one request to the server and everything the wrappers do with its outcome
\* up to the next relog, or up to the end of the call
RawCall ==
    /\ phase = "running"
    /\ Top.pc \in {"first", "attempt"}
    /\ IF Top.fn = "api" \/ ~fandom THEN TRUE
       ELSE AttemptRequest(Top, args, loopKw).err
    /\ IF Len(stack) = 1
       THEN /\ requests' = Append(requests, AttemptRequest(Top, args, loopKw))
            /\ loopKw' = KwargsAfterCall(Top, loopKw)
       ELSE UNCHANGED <<requests, loopKw>>
    /\ \E srv \in IF Len(stack) = 1
                   THEN AttemptOutcomes(AttemptRequest(Top, args, loopKw))
                   ELSE ServerOutcomes :
        LET x == srv.kind
            d == Delivered(stack, Out(x, "none"))
        IN
        /\ calls' = calls + 1
        /\ events' = Append(events, "attempt")
        /\ applied' = IF srv.committed THEN applied + 1 ELSE applied
        /\ IF Top.fn \in PageOps
           THEN /\ handles' = Append(handles, HandleUse(Top, callerPage, session))
                /\ callerPage' =
                      PageAfter(callerPage, AttemptHandle(Top, callerPage, session))
           ELSE UNCHANGED <<handles, callerPage>>
        /\ stop' =
              IF stop # NoStop THEN stop
              ELSE IF x \in CancelKinds
              THEN StopAt("cancel", x, calls + 1, relogs, Len(sleeps))
              ELSE IF x = "ProtectedPageError" /\ d.logged > 0
              THEN StopAt("protected", x, calls + 1, relogs, Len(sleeps))
              ELSE stop
        /\ firstRaw' = IF calls = 0 THEN Seen(x) ELSE firstRaw
        /\ lastRaw' = Seen(x)
        /\ rawFails' = IF x \in TransientKinds THEN rawFails + 1 ELSE rawFails
        /\ stack' = d.stack
        /\ logged' = logged + d.logged
        /\ loops' = loops \o d.loops
        /\ exhausted' = (exhausted \/ d.gaveUp)
        /\ afterExhaust' = IF exhausted THEN afterExhaust + 1 ELSE afterExhaust
        /\ outcome' = d.out.kind
        /\ action' = d.out.act
        /\ ret' = IF d.out.kind = "ok" /\ op = "api" THEN calls + 1 ELSE ret
        /\ phase' = IF d.out.kind = "none" THEN "running" ELSE "done"
    /\ UNCHANGED <<max_retries, retry_interval, fandom, op, hasLog, relogs, sleeps,
                   session, args, contVars, concVars>>

\* self.relog() raised kind: the call stands outside every try of the loop,
\* so the exception leaves the wrapper
\* faulty variant: relog inside the try, its error caught like a failed attempt
RelogRaisedCaught(f, kind) == LoopNext(Caught(f), f.retry + 1)

RelogRaised(f, kind) == Raise(f, Out(kind, "none"))

\* self.relog(): it returns (a new session is in force), or it raises
Relog ==
    /\ phase = "running"
    /\ Top.pc = "relog"
    /\ relogs' = relogs + 1
    /\ afterExhaust' = IF exhausted THEN afterExhaust + 1 ELSE afterExhaust
    /\ \E kind \in RelogOutcomes :
        IF kind = "ok"
        THEN /\ stack' = SetTop(stack, [Top EXCEPT !.pc = "sleep", !.relogs = @ + 1])
             /\ session' = session + 1
             /\ events' = Append(events, "relog")
             /\ UNCHANGED <<logged, loops, exhausted, outcome, action, phase, stop>>
        ELSE LET r == RelogRaised([Top EXCEPT !.relogs = @ + 1], kind)
                 rec == LoopRecord(r.f, Len(stack), r)
             IN  /\ session' = session
                 /\ events' = Append(events, "relogRaised")
                 /\ stop' = IF stop # NoStop THEN stop
                            ELSE StopAt("relog", kind, calls, relogs + 1, Len(sleeps))
                 /\ IF r.st = "continue"
                    THEN /\ stack' = SetTop(stack, r.f)
                         /\ UNCHANGED <<logged, loops, exhausted, outcome, action,
                                        phase>>
                    ELSE IF Len(stack) = 1
                    THEN /\ stack' = <<>>
                         /\ loops' = Append(loops, rec)
                         /\ exhausted' = (exhausted \/ r.own)
                         /\ outcome' = r.out.kind
                         /\ action' = r.out.act
                         /\ phase' = "done"
                         /\ UNCHANGED logged
                    ELSE LET d == Delivered(Pop(stack), r.out) IN
                         /\ stack' = d.stack
                         /\ logged' = logged + d.logged
                         /\ loops' = Append(loops, rec) \o d.loops
                         /\ exhausted' = (exhausted \/ r.own \/ d.gaveUp)
                         /\ outcome' = d.out.kind
                         /\ action' = d.out.act
                         /\ phase' = IF d.out.kind = "none" THEN "running" ELSE "done"
    /\ UNCHANGED <<max_retries, retry_interval, fandom, op, hasLog, calls,
                   firstRaw, lastRaw, rawFails, sleeps, ret, handles, callerPage,
                   applied, args, loopKw, requests, contVars, concVars>>

\* a cancellation (Ctrl-C, the kill pill) arrives while the loop is between
\* the failed attempt and relog, or in time.sleep: nothing on the stack
\* catches a BaseException
Cancel ==
    /\ phase = "running"
    /\ Top.pc \in {"relog", "sleep"}
    /\ \E kind \in CancelKinds :
        LET r == Raise(Top, Out(kind, "none"))
            rec == LoopRecord(r.f, Len(stack), r)
        IN  /\ stop' = IF stop # NoStop THEN stop
                       ELSE StopAt("cancel", kind, calls, relogs, Len(sleeps))
            /\ events' = Append(events, "cancel")
            /\ IF Len(stack) = 1
               THEN /\ stack' = <<>>
                    /\ loops' = Append(loops, rec)
                    /\ outcome' = kind
                    /\ phase' = "done"
                    /\ UNCHANGED <<logged, exhausted, action>>
               ELSE LET d == Delivered(Pop(stack), r.out) IN
                    /\ stack' = d.stack
                    /\ logged' = logged + d.logged
                    /\ loops' = Append(loops, rec) \o d.loops
                    /\ exhausted' = (exhausted \/ d.gaveUp)
                    /\ outcome' = d.out.kind
                    /\ action' = d.out.act
                    /\ phase' = IF d.out.kind = "none" THEN "running" ELSE "done"
    /\ UNCHANGED <<max_retries, retry_interval, fandom, op, hasLog, calls,
                   firstRaw, lastRaw, rawFails, relogs, sleeps, afterExhaust, ret,
                   session, handles, callerPage, applied, args, loopKw,
                   requests, contVars, concVars>>

\* time.sleep((2 ** retry - 1) * self.retry_interval)
Sleep ==
    /\ phase = "running"
    /\ Top.pc = "sleep"
    /\ sleeps' = Append(sleeps, [fn |-> Top.fn, retry |-> Top.retry,
                                 delay |-> Backoff(Top.retry, retry_interval)])
    /\ stack' = SetTop(stack, [Top EXCEPT !.pc = "attempt"])
    /\ events' = Append(events, "sleep")
    /\ UNCHANGED <<max_retries, retry_interval, fandom, op, hasLog, phase, calls,
                   firstRaw, lastRaw, rawFails, relogs, logged, loops, exhausted,
                   afterExhaust, outcome, action, ret, session, handles,
                   callerPage, applied, stop, args, loopKw, requests, contVars,
                   concVars>>

\* the caller invokes api_continue(log, action, continue_name, **kwargs)
ContCall ==
    /\ phase = "idle"
    /\ \E h \in Hints, kw \in BaseKwargs :
        /\ hint' = h
        /\ callerKwargs' = kw
        /\ cur' = [i |-> 0, continue_name |-> h, kwargs |-> kw]
    /\ op' = "api_continue"
    /\ phase' = "paging"
    /\ UNCHANGED <<max_retries, retry_interval, fandom, hasLog, stack, calls,
                   firstRaw, lastRaw, rawFails, relogs, sleeps, logged, loops,
                   exhausted, afterExhaust, outcome, action, ret, session,
                   handles, callerPage, applied, stop, events, args, loopKw,
                   requests, concVars>>
    /\ UNCHANGED <<cstack, creqs, cresps, cerrAt, clog, cout, cret>>

\* one activation of api_continue: i += 1, the request, and either the
\* recursive call (the activation waits on cstack) or its end, and then the
\* rest of every waiting activation
ContRequest ==
    /\ phase = "paging"
    /\ LET i == cur.i + 1 IN
       \E resp \in Responses(i) :
        /\ i = MaxPages => ~Recurses(i, cur.continue_name, resp)
        /\ creqs' = Append(creqs, cur.kwargs)
        /\ cresps' = Append(cresps, resp)
        /\ IF resp.err # "none"
           THEN /\ cerrAt' = i
                /\ clog' = Append(clog, [i |-> i, action |-> "query",
                                         kwargs |-> cur.kwargs])
           ELSE UNCHANGED <<cerrAt, clog>>
        /\ LET r == IF resp.err # "none" THEN Returns(PyNone)
                    ELSE AfterResponse(i, cur.continue_name, resp)
           IN  IF r.st = "recurse"
               THEN /\ cstack' = Append(cstack, [i |-> i, payload |-> resp.payload])
                    /\ cur' = [i |-> i, continue_name |-> r.name,
                               kwargs |-> MergeToken(cur.kwargs, r.name, r.tok)]
                    /\ UNCHANGED <<phase, cout, cret>>
               ELSE LET end == Unwind(cstack, r) IN
                    /\ cstack' = <<>>
                    /\ cur' = [cur EXCEPT !.i = i]
                    /\ phase' = "done"
                    /\ cout' = IF end.st = "raise" THEN end.kind ELSE "return"
                    /\ cret' = end.val
    /\ UNCHANGED <<max_retries, retry_interval, fandom, op, hasLog, stack, calls,
                   firstRaw, lastRaw, rawFails, relogs, sleeps, logged, loops,
                   exhausted, afterExhaust, outcome, action, ret, session,
                   handles, callerPage, applied, stop, events, args, loopKw,
                   requests, concVars>>
    /\ UNCHANGED <<callerKwargs, hint>>

\* ---- several threads call wrappers of the same client; no statement of a
\* wrapper takes a lock, so the threads' steps interleave freely
UnchangedByThreads ==
    UNCHANGED <<max_retries, retry_interval, fandom, op, hasLog, phase, stack,
                calls, firstRaw, lastRaw, rawFails, relogs, sleeps, logged,
                loops, exhausted, afterExhaust, outcome, action, ret, handles,
                callerPage, applied, stop, events, args, loopKw, requests,
                contVars>>

\* a thread calls save_ / move_ / delete_ / api_
ThreadCall(t) ==
    /\ threads[t].at = "idle"
    /\ \E o \in Ops :
        threads' = [threads EXCEPT ![t].at = "ready", ![t].f = Frame(o)]
    /\ UNCHANGED session
    /\ UnchangedByThreads

\* the thread sends the request of an attempt under the session in force
ThreadSend(t) ==
    /\ threads[t].at = "ready"
    /\ threads[t].f.pc \in {"first", "attempt"}
    /\ threads' = [threads EXCEPT ![t].at = "inFlight", ![t].sess = session]
    /\ UNCHANGED session
    /\ UnchangedByThreads

\* the response, and what the wrapper does with it
ThreadReceive(t) ==
    /\ threads[t].at = "inFlight"
    /\ \E x \in RawOutcomes :
        LET r == FrameStep([threads[t].f EXCEPT !.last = Seen(x)], Out(x, "none")) IN
        threads' = IF r.st = "continue"
                   THEN [threads EXCEPT ![t].at = "ready", ![t].f = r.f]
                   ELSE [threads EXCEPT ![t].at = "done", ![t].f = r.f,
                                        ![t].out = r.out.kind]
    /\ UNCHANGED session
    /\ UnchangedByThreads

\* the thread enters self.relog()
ThreadRelogEnter(t) ==
    /\ threads[t].at = "ready"
    /\ threads[t].f.pc = "relog"
    /\ threads' = [threads EXCEPT ![t].at = "inRelog"]
    /\ UNCHANGED session
    /\ UnchangedByThreads

\* self.relog() ends: the client is logged in anew (the session before it is
\* gone), or relog raises
ThreadRelogExit(t) ==
    /\ threads[t].at = "inRelog"
    /\ \E kind \in RelogOutcomes :
        IF kind = "ok"
        THEN /\ session' = session + 1
             /\ threads' = [threads EXCEPT ![t].at = "ready", ![t].f.pc = "sleep",
                                           ![t].f.relogs = @ + 1]
        ELSE /\ session' = session
             /\ threads' = [threads EXCEPT ![t].at = "done", ![t].f.relogs = @ + 1,
                                           ![t].out = kind]
    /\ UnchangedByThreads

\* time.sleep(...)
ThreadSleep(t) ==
    /\ threads[t].at = "ready"
    /\ threads[t].f.pc = "sleep"
    /\ threads' = [threads EXCEPT ![t].f.pc = "attempt"]
    /\ UNCHANGED session
    /\ UnchangedByThreads

Next ==
    \/ Call
    \/ PageCallsApi
    \/ RawCall
    \/ Relog
    \/ Sleep
    \/ Cancel

ContNext ==
    \/ ContCall
    \/ ContRequest

\* the retry wrappers
Spec == Init /\ [][Next]_vars

\* api_continue
ContSpec == ContInit /\ [][ContNext]_vars

ConcNext ==
    \E t \in Threads :
        \/ ThreadCall(t)
        \/ ThreadSend(t)
        \/ ThreadReceive(t)
        \/ ThreadRelogEnter(t)
        \/ ThreadRelogExit(t)
        \/ ThreadSleep(t)

\* two threads on one client with the defaults
ConcSpec == ConcInit /\ [][ConcNext]_vars

\* ================================================================= claims
\* ---- the retry wrappers

\* C1: a call whose remote operation fails with a transient error k times in
\* a row and then succeeds, with k < max_retries, ends in success, relog was
\* called exactly k times (once per failed attempt), and api_ returns the
\* result of the successful attempt.
C1_RetryThenSuccess ==
    (phase = "done" /\ lastRaw = "ok" /\ rawFails = calls - 1
        /\ rawFails < max_retries)
    => (outcome = "ok" /\ relogs = rawFails /\ (op = "api" => ret = calls))

C1_Witness ==
    /\ phase = "done" /\ op = "api" /\ max_retries = DefaultMaxRetries
    /\ lastRaw = "ok" /\ rawFails = 2 /\ calls = 3
    /\ outcome = "ok" /\ relogs = 2 /\ ret = 3

\* C2 as stated: max_retries transient failures in a row, the first attempt
\* counted, already end the call in RetriedLoginAndStillFailed after exactly
\* max_retries retries, even when the next attempt succeeds.  (Stated for
\* save_ and api_ of a WikiClient with max_retries >= 1 and a relog that
\* returns.)
C2_Original ==
    (phase = "done" /\ ~fandom /\ op \in {"save", "api"} /\ max_retries >= 1
        /\ rawFails >= max_retries /\ lastRaw \in {"transient", "ok"}
        /\ outcome \notin RelogOutcomes \ {"ok"})
    => (outcome = RLASF /\ relogs = max_retries)

\* C2 as amended: max_retries is the number of retries after the first
\* attempt.  A retry loop never relogs or retries more than max_retries times;
\* it raises RetriedLoginAndStillFailed exactly when the first attempt and all
\* max_retries retries failed with errors the wrapper catches (max_retries + 1
\* failures in a row), after exactly max_retries relogs; a wrapper whose
\* max_retries-th retry succeeds after max_retries caught failures returns
\* normally.
C2_BudgetIsRetries ==
    /\ \A i \in DOMAIN stack :
          /\ stack[i].relogs <= max_retries
          /\ stack[i].fails <= max_retries
          /\ stack[i].pc # "first" => stack[i].retry < max_retries
    /\ \A i \in DOMAIN loops :
          LET l == loops[i] IN
          /\ l.relogs <= max_retries
          /\ l.own => (l.fails = max_retries + 1 /\ l.relogs = max_retries
                        /\ l.out = RLASF)
          /\ l.fails >= max_retries + 1 => l.own
          /\ (l.fails = max_retries /\ l.last = "ok") => l.out = "ok"
    /\ (phase = "done" /\ loops[Len(loops)].own) => outcome = RLASF

C2_Witness ==
    /\ phase = "done" /\ ~fandom /\ op = "save"
    /\ max_retries = DefaultMaxRetries
    /\ calls = 4 /\ rawFails = 4 /\ relogs = 3 /\ outcome = RLASF

\* C4: when the first attempt fails with a fatal error (ProtectedPageError
\* without a log sink, or any error outside the transient set), relog is never
\* called, nothing sleeps, there is no second attempt, and that error is what
\* the caller gets.
C4_FatalFirstAttempt ==
    (firstRaw \in FatalKinds /\ ~(firstRaw = "ProtectedPageError" /\ hasLog))
    => /\ phase = "done"
       /\ outcome = firstRaw
       /\ relogs = 0
       /\ sleeps = <<>>
       /\ calls = 1

C4_Witness ==
    /\ phase = "done" /\ op = "save" /\ ~hasLog /\ max_retries >= 1
    /\ firstRaw = "ProtectedPageError" /\ outcome = "ProtectedPageError"
    /\ relogs = 0 /\ calls = 1

\* C6: the sleep before retry n (0-based) is 0, interval, 3*interval,
\* 7*interval for n = 0..3, each later one is twice the one before plus the
\* interval, the delays never decrease with n, and _retry_login_action and
\* api_ sleep the same for the same n.
C6_BackoffDelays ==
    \A i \in DOMAIN sleeps :
        LET s == sleeps[i] IN
        /\ s.retry = 0 => s.delay = 0
        /\ s.retry = 1 => s.delay = retry_interval
        /\ s.retry = 2 => s.delay = 3 * retry_interval
        /\ s.retry = 3 => s.delay = 7 * retry_interval
        /\ \A j \in DOMAIN sleeps :
              LET t == sleeps[j] IN
              /\ t.retry = s.retry + 1 => t.delay = 2 * s.delay + retry_interval
              /\ t.retry >= s.retry => t.delay >= s.delay
              /\ t.retry = s.retry => t.delay = s.delay

C6_Witness ==
    /\ \E i \in DOMAIN sleeps :
          sleeps[i].fn = "api" /\ sleeps[i].retry = 3
            /\ sleeps[i].delay = 7 * DefaultRetryInterval
    /\ \E i \in DOMAIN sleeps :
          sleeps[i].fn = "save" /\ sleeps[i].retry = 3
            /\ sleeps[i].delay = 7 * DefaultRetryInterval

\* C10 as stated: once a retry loop has raised RetriedLoginAndStillFailed,
\* that failure is the caller's outcome: the call is over, and no relog and
\* no attempt follows it.
C10_Original ==
    exhausted => (phase = "done" /\ outcome = RLASF /\ afterExhaust = 0)

\* ---- api_continue (checked under ContSpec)
Finished == phase = "done" /\ op = "api_continue"

NPages == Len(cresps)

\* the key in force when response k arrives: the caller's, else the first key
\* of the first continuation block ("" while none is fixed)
KeyInForce(k) ==
    IF hint # "" THEN hint
    ELSE IF k > 1 /\ cresps[1].block.pairs # <<>> THEN cresps[1].block.pairs[1].key
    ELSE ""

\* the key fixed for the run, once a block was seen ("" before)
FixedKey == KeyInForce(2)

\* C3 as stated: N responses, the first N-1 with a continuation block and
\* the N-th without, give [payload1, ..., payloadN] in call order.  (Stated
\* for runs in which every payload is a filled OrderedDict.)
C3_Original ==
    (Finished /\ cerrAt = 0 /\ ~cresps[NPages].block.present
        /\ \A k \in 1..NPages : cresps[k].payload = Payload("od", k))
    => (cout = "return" /\ cret = PyList([k \in 1..NPages |-> cresps[k].payload]))

\* C5 as stated: when the k-th request fails with a transport/API error,
\* api_continue raises ApiContinueError (loop index k, the action, the
\* parameters of that request) and does not return normally.
C5_Original ==
    (Finished /\ cerrAt # 0 /\ cresps[cerrAt].err = "Exception")
    => (cout = "ApiContinueError" /\ cout # "return")

\* C7: a first response without continuation block: exactly one request is
\* made and the result is the one-element list [payload1].
C7_SinglePage ==
    (NPages >= 1 /\ cresps[1].err = "none" /\ ~cresps[1].block.present)
    => /\ Finished
       /\ Len(creqs) = 1
       /\ cout = "return"
       /\ cret = PyList(<<cresps[1].payload>>)

C7_Witness ==
    /\ Finished
    /\ cresps = <<[err |-> "none", payload |-> Payload("od", 1), block |-> NoBlock]>>
    /\ Len(creqs) = 1
    /\ cret = PyList(<<Payload("od", 1)>>)

\* C8: request 1 carries the caller's parameters; request k+1 carries them
\* with only the continuation key set to the token of response k (an earlier
\* token is overwritten); the caller's mapping stays as passed.
C8_RequestParameters ==
    /\ Len(creqs) = NPages
    /\ \A k \in DOMAIN creqs :
          IF k = 1 THEN creqs[k] = callerKwargs
          ELSE creqs[k] = [callerKwargs EXCEPT
                              ![FixedKey] = TokenAt(cresps[k - 1].block, FixedKey)]
    /\ phase = "paging" /\ cur.i > 0 =>
          cur.kwargs = [callerKwargs EXCEPT
                           ![FixedKey] = TokenAt(cresps[cur.i].block, FixedKey)]

C8_Witness ==
    /\ Finished /\ hint = "" /\ callerKwargs["cmcontinue"] = "old"
    /\ Len(creqs) = 3
    /\ creqs[1]["cmcontinue"] = "old"
    /\ creqs[2]["cmcontinue"] = "A"
    /\ creqs[3]["cmcontinue"] = "B"
    /\ creqs[3]["continue"] = "absent"
    /\ Len(cresps[1].block.pairs) = 2

\* C9: the continuation key, once fixed (the caller's continue_name, or the
\* first key of the first block), is the key of every later request, and a
\* response whose continuation block lacks it ends the run with an error and
\* no result.
C9_KeyIsFrozen ==
    /\ phase = "paging" /\ cur.i > 0 => cur.continue_name = FixedKey
    /\ \A k \in DOMAIN creqs :
          k > 1 => /\ creqs[k][FixedKey] = TokenAt(cresps[k - 1].block, FixedKey)
                   /\ \A key \in ParamKeys \ {FixedKey} : creqs[k][key] = creqs[1][key]
    /\ \A k \in DOMAIN cresps :
          (cresps[k].err = "none" /\ cresps[k].block.present
              /\ KeyInForce(k) # "" /\ ~HasKey(cresps[k].block, KeyInForce(k)))
          => /\ Finished
             /\ k = NPages
             /\ cout = "KeyError"
             /\ cret = PyNone

C9_Witness ==
    /\ Finished /\ hint = "" /\ NPages = 2
    /\ cresps[1].block = Block(<<[key |-> "cmcontinue", tok |-> "A"]>>)
    /\ cresps[2].block = Block(<<[key |-> "xyzcontinue", tok |-> "B"]>>)
    /\ creqs[2]["cmcontinue"] = "A"
    /\ cout = "KeyError"

\* ---- the retry wrappers, continued

\* C11: the RetriedLoginAndStillFailed a wrapper raises when its retries are
\* used up carries the wrapper's action ("edit" for save, "move", "delete",
\* "api"), and it is what the wrapper raises instead of the transient error
\* of its last attempt; the caller of a WikiClient wrapper that ends in
\* RetriedLoginAndStillFailed reads the action of the wrapper called.
C11_FailureNamesAction ==
    /\ \A i \in DOMAIN loops :
          LET l == loops[i] IN
          l.own => /\ l.out = RLASF
                   /\ l.out \notin TransientKinds
                   /\ l.last \in {"transient", RLASF}
                   /\ l.fn = "save" => l.act = "edit"
                   /\ l.fn = "move" => l.act = "move"
                   /\ l.fn = "delete" => l.act = "delete"
                   /\ l.fn = "api" => l.act = "api"
    /\ (phase = "done" /\ outcome = RLASF /\ ~fandom) =>
          /\ loops[Len(loops)].own
          /\ op = "save" => action = "edit"
          /\ op = "move" => action = "move"
          /\ op = "delete" => action = "delete"
          /\ op = "api" => action = "api"

C11_Witness ==
    /\ phase = "done" /\ ~fandom /\ op = "save" /\ max_retries = 2
    /\ calls = 3 /\ rawFails = 3 /\ lastRaw = "transient"
    /\ outcome = RLASF /\ action = "edit"

\* C12: every retried attempt of save/move/delete works on a page handle
\* made by looking the page up by name under the session of the most recent
\* relog; the caller's handle serves the first attempt only, and the retries
\* leave it as it was.
C12_RetriedHandleIsFresh ==
    /\ \A i \in DOMAIN handles :
          LET h == handles[i] IN
          /\ h.retried =>
                /\ h.handle.obj = "byName"
                /\ h.handle.name = CallerPage.name
                /\ h.handle.session = h.now
                /\ h.now >= 1
          /\ ~h.retried => h.handle.obj = "caller"
    /\ callerPage.name = CallerPage.name
    /\ callerPage.session = CallerPage.session
    /\ callerPage.uses <= 1
    /\ callerPage.uses = (IF handles = <<>> THEN 0 ELSE 1)
    /\ (~fandom /\ phase = "running" /\ op \in PageOps /\ Top.pc = "attempt")
          => session = relogs

C12_Witness ==
    /\ phase = "done" /\ ~fandom /\ op = "move" /\ outcome = "ok"
    /\ Len(handles) = 3
    /\ handles[1].handle.obj = "caller"
    /\ handles[2].handle = [obj |-> "byName", name |-> "Page", session |-> 1]
    /\ handles[3].handle = [obj |-> "byName", name |-> "Page", session |-> 2]
    /\ callerPage.uses = 1

\* C14: a cancellation (KeyboardInterrupt, or another BaseException such as
\* ScriptExecutionKilledByPill) that arrives in a retry loop, before or during
\* an attempt, ends the call with that cancellation as the outcome: it is not
\* RetriedLoginAndStillFailed, and no relog, sleep or attempt follows it.
C14_CancellationEndsCall ==
    /\ lastRaw = "KeyboardInterrupt" => stop.why = "cancel"
    /\ stop.why = "cancel" =>
          /\ phase = "done"
          /\ stack = <<>>
          /\ outcome = stop.kind
          /\ outcome \in CancelKinds
          /\ outcome # RLASF
          /\ ~loops[Len(loops)].own
          /\ calls = stop.calls
          /\ relogs = stop.relogs
          /\ Len(sleeps) = stop.sleeps

C14_Witness ==
    /\ phase = "done" /\ ~fandom /\ op = "delete" /\ max_retries = DefaultMaxRetries
    /\ firstRaw = "transient" /\ lastRaw = "KeyboardInterrupt"
    /\ calls = 2 /\ relogs = 1
    /\ stop.why = "cancel" /\ outcome = "KeyboardInterrupt"

\* C16 as stated: one call of save/move/delete has its change committed by
\* the server at most once, also when an attempt is committed but reaches
\* the client as a transient error (the response lost or late) and is retried.
C16_Original ==
    op \in PageOps => applied <= 1

\* C17: save with a log sink, and an attempt (the first or a retried one)
\* fails because the page is protected: the sink is called exactly once,
\* save returns normally, and no relog, sleep or attempt follows.
C17_ProtectedToLogSink ==
    /\ logged <= 1
    /\ (hasLog /\ lastRaw = "ProtectedPageError") => stop.why = "protected"
    /\ logged = 1 => (hasLog /\ stop.why = "protected")
    /\ stop.why = "protected" =>
          /\ phase = "done"
          /\ stack = <<>>
          /\ outcome = "ok"
          /\ logged = 1
          /\ calls = stop.calls
          /\ relogs = stop.relogs
          /\ Len(sleeps) = stop.sleeps

C17_Witness ==
    /\ phase = "done" /\ ~fandom /\ op = "save" /\ hasLog
    /\ firstRaw = "transient" /\ lastRaw = "ProtectedPageError"
    /\ calls = 3 /\ relogs = 2
    /\ logged = 1 /\ outcome = "ok"

\* C18: relog raises inside a retry loop: the caller gets that error (not
\* RetriedLoginAndStillFailed), and the call makes no attempt, no sleep and
\* no relog after it.
C18_RelogErrorIsFatal ==
    /\ outcome \in RelogOutcomes \ {"ok"} => stop.why = "relog"
    /\ stop.why = "relog" =>
          /\ phase = "done"
          /\ stack = <<>>
          /\ outcome = stop.kind
          /\ outcome \in RelogOutcomes \ {"ok"}
          /\ outcome # RLASF
          /\ ~loops[Len(loops)].own
          /\ calls = stop.calls
          /\ relogs = stop.relogs
          /\ Len(sleeps) = stop.sleeps

C18_Witness ==
    /\ phase = "done" /\ ~fandom /\ op = "api" /\ max_retries = DefaultMaxRetries
    /\ calls = 2 /\ rawFails = 2 /\ relogs = 2 /\ Len(sleeps) = 1
    /\ stop.why = "relog" /\ outcome = "LoginError"

\* C21: the first attempt succeeds: the operation was called once, relog was
\* not called, nothing slept, the session is the one the call began with, and
\* api returns the result of that attempt.
C21_FirstAttemptSuccess ==
    firstRaw = "ok" =>
        /\ phase = "done"
        /\ stack = <<>>
        /\ outcome = "ok"
        /\ calls = 1
        /\ relogs = 0
        /\ session = 0
        /\ sleeps = <<>>
        /\ logged = 0
        /\ op = "api" => ret = 1

C21_Witness ==
    /\ phase = "done" /\ ~fandom /\ op = "api" /\ max_retries = DefaultMaxRetries
    /\ firstRaw = "ok" /\ calls = 1 /\ relogs = 0 /\ sleeps = <<>>
    /\ outcome = "ok" /\ ret = 1

\* C22 as stated: whether a failure is retried depends on its kind only, the
\* same for all four wrappers and for the first attempt as for retried ones:
\* a failure of a transient kind is always answered by relog and retry, so it
\* never is the caller's outcome (the caller gets a success, or
\* RetriedLoginAndStillFailed once the retries are used up, or what relog or
\* a cancellation raised); a failure of another kind is never retried.
\* (Stated for a WikiClient.)
C22_Original ==
    ~fandom =>
        /\ (phase = "done" /\ lastRaw = "transient") => outcome \notin TransientKinds
        /\ lastRaw \in FatalKinds => phase = "done"

\* C23: a retried attempt (not the first) fails with a fatal error (one
\* outside write_errors; a protected page unless save has a log sink): the
\* caller gets that error, not RetriedLoginAndStillFailed, and the loop makes
\* no relog, sleep or attempt after it, whatever is left of max_retries.
C23_FatalOnRetriedAttempt ==
    (calls >= 2 /\ lastRaw \in FatalKinds
        /\ ~(lastRaw = "ProtectedPageError" /\ hasLog))
    => /\ phase = "done"
       /\ stack = <<>>
       /\ outcome = lastRaw
       /\ outcome # RLASF
       /\ ~loops[Len(loops)].own
       /\ relogs = Len(sleeps)
       /\ ~fandom => (relogs = calls - 1 /\ relogs = rawFails)

C23_Witness ==
    /\ phase = "done" /\ ~fandom /\ op = "move" /\ max_retries = DefaultMaxRetries
    /\ firstRaw = "transient" /\ lastRaw = "OtherError"
    /\ calls = 2 /\ relogs = 1 /\ outcome = "OtherError"

C25_SameRequestEveryAttempt ==
    /\ \A i \in DOMAIN requests :
          /\ ~requests[i].err
          /\ requests[i] = requests[1]
          /\ requests[i] = FirstRequest(op, args)
          /\ op \in PageOps => requests[i].target = CallerPage.name
          /\ DOMAIN requests[i].options \cap {"page", "log"} = {}
    /\ outcome # "KeyError"
    /\ op \in Ops => (loopKw = args /\ Popped(op) \subseteq DOMAIN loopKw)
    /\ ~fandom => Len(requests) = calls

C25_Witness ==
    /\ phase = "done" /\ ~fandom /\ op = "save" /\ hasLog /\ outcome = "ok"
    /\ lastRaw = "ok"
    /\ Len(requests) = 4 /\ relogs = 3 /\ "tags" \in DOMAIN args
    /\ requests[4] = Request("Page", <<"new text">>,
                             Without(args, {"page", "text", "log"}))
    /\ requests[4].options["tags"] = "a tag"
    /\ requests[4].options["summary"] = "a summary"
    /\ requests[2] = requests[1] /\ requests[3] = requests[1]

\* ---- concurrent callers (checked under ConcSpec)

\* C13 as stated: with several wrappers running at once on one client, at
\* most one of them is inside relog at any time, and every attempt in flight
\* was sent under the session that is still in force.
C13_Original ==
    /\ Cardinality(InRelog) <= 1
    /\ \A t \in InFlight : threads[t].sess = session

\* ---- api_continue, continued (checked under ContSpec)

\* C15 as stated: a cancellation (KeyboardInterrupt) that arrives while a
\* request of api_continue is under way reaches the caller as that
\* cancellation; nothing is logged for it as an error of the continued call
\* and the run does not end like a run whose API call failed (a normal
\* return of nothing).
C15_Original ==
    (Finished /\ cerrAt # 0 /\ cresps[cerrAt].err = "KeyboardInterrupt")
    => (cout = "KeyboardInterrupt" /\ clog = <<>> /\ ~(cout = "return" /\ cret = PyNone))

\* the key api_continue looks up in the block of response k: the key in
\* force, else the first key of that block
LookedUp(k) ==
    IF KeyInForce(k) # "" THEN KeyInForce(k) ELSE cresps[k].block.pairs[1].key

\* C19 as stated: a response whose continuation block holds the chosen key
\* with an empty token ends the run with an error: not with a normal return.
C19_Original ==
    \A k \in DOMAIN cresps :
        (cresps[k].err = "none" /\ cresps[k].block.present
            /\ cresps[k].block.pairs # <<>>
            /\ HasKey(cresps[k].block, LookedUp(k))
            /\ TokenAt(cresps[k].block, LookedUp(k)) = "")
        => (Finished /\ cout \notin {"none", "return"})

\* C20: one request per page and nothing else: every activation sends one
\* request, api_continue never relogs, sleeps or goes through a retry
\* wrapper, no request follows a failed one or a response without
\* continuation block, a result is returned only when the last response had
\* no continuation block, and a run over N pages ends after N requests.
C20_OneRequestPerPage ==
    /\ Len(creqs) = NPages
    /\ phase = "paging" => cur.i = NPages
    /\ (op = "api_continue") => (relogs = 0 /\ sleeps = <<>> /\ calls = 0 /\ stack = <<>>)
    /\ \A k \in DOMAIN cresps :
          /\ (cresps[k].err # "none" \/ ~cresps[k].block.present)
                => (k = NPages /\ Finished)
          /\ k < NPages => cresps[k].block.present
    /\ (Finished /\ cout = "return" /\ cret # PyNone)
          => (cresps[NPages].err = "none" /\ ~cresps[NPages].block.present)
    /\ (NPages >= 1 /\ cresps[NPages].err = "none" /\ ~cresps[NPages].block.present)
          => (Finished /\ Len(creqs) = NPages)

C20_Witness ==
    /\ Finished /\ NPages = 3 /\ Len(creqs) = 3
    /\ cresps[1].block.present /\ cresps[2].block.present
    /\ ~cresps[3].block.present
    /\ cout = "return" /\ Len(cret.items) = 3

\* C26 as stated: every request of the run succeeds and the last response
\* has no continuation block: the result is a sequence with one entry per
\* request made, whatever the payloads are (an empty payload or one of another
\* type included).
C26_Original ==
    (Finished /\ cerrAt = 0 /\ NPages >= 1 /\ ~cresps[NPages].block.present)
    => (cout = "return" /\ cret.t = "list" /\ Len(cret.items) = NPages)

====
